---- MODULE Spec2Model ----
(***************************************************************************)
(* Model of the inference-call orchestration of src/main.py:               *)
(*   ai_analyze                 (lines 315-345)  fallback orchestrator     *)
(*   call_deepseek_siliconflow  (lines 134-183)  DeepSeek retry loop       *)
(*   call_gemini_http           (lines  61-129)  Gemini retry loop         *)
(*   call_openai_official       (lines 300-314)  single OpenAI call        *)
(*   _extract_retry_seconds, _is_quota_exhausted (lines 27-60)             *)
(*                                                                         *)
(* Durations: base_sleep and the jitter are real numbers in the source;    *)
(* they are kept here in tenths of a second. The value passed to           *)
(* time.sleep is an int number of seconds (int() truncates).               *)
(* Texts are sequences of characters.                                      *)
(***************************************************************************)
EXTENDS Integers, Sequences, FiniteSets, TLC

\* Largest GEMINI_MAX_RETRIES explored (the variable is read from the
\* environment, src/main.py:81; 0 makes the loop body never run).
MaxGeminiRetries == 3

\* max_retries and base_sleep of call_deepseek_siliconflow (seconds).
DeepSeekMaxRetries == 3
DeepSeekBaseSleep == 3

Providers == {"deepseek", "gemini", "openai"}

\* GEMINI_BASE_SLEEP values explored, in tenths of a second: 0.3 s and the
\* default 2.5 s.
BaseSleeps == {3, 25}

\* random.random() * 2 lies in [0, 2): tenths of a second.
Jitters == {0, 7, 19}

VARIABLES
    env,      \* configuration read with os.getenv: prompt template, API keys,
              \* GEMINI_MAX_RETRIES, GEMINI_BASE_SLEEP
    pc,       \* position of ai_analyze: "start", the provider whose call is
              \* running, or "done"
    phase,    \* per provider call: "idle", "attempting", "retrying",
              \* "succeeded", "exhausted"
    attempt,  \* per provider call: the loop variable `attempt`
    https,    \* per provider: HTTP requests sent
    sleeps,   \* per provider: time.sleep calls made
    last,     \* per provider: class of the latest attempt's outcome
    nretry,   \* per provider: attempts that ended 429 (not quota) or 503
    nother,   \* per provider: attempts that failed any other way
    err,      \* per provider: the exception its call raised to ai_analyze
    wait,     \* the pending time.sleep argument and what it was computed from
    turns,    \* per provider: times ai_analyze called it
    branch,   \* which except clause of ai_analyze caught Gemini's exception
    result,   \* what ai_analyze returned
    bpc,      \* position of main(): "off" while main is not running,
              \* "connect", "position", "analyze", "cooldown", "manifest",
              \* "end"
    items,    \* main: list(stocks_dict.items()), the symbols
    idx,      \* main: the position being processed, counted from 1
    generated,\* main: generated_pdfs
    pushList, \* the file push_list.txt
    cooldowns,\* main: time.sleep(60) calls made
    log,      \* per position: what process_one_stock did with it
    fetch,    \* a call of fetch_stock_data_dynamic: arguments and result
    key,      \* a use of a stock identifier: raw value and key looked up
    promptCache, \* _PROMPT_CACHE, the template's sources and their reads
    sheet     \* the rows of the Google Sheet and the last call on it

\* The state of main(), and of the calls studied on their own.
outer == <<bpc, items, idx, generated, pushList, cooldowns, log, fetch, key,
           promptCache, sheet>>

vars == <<env, pc, phase, attempt, https, sleeps, last, nretry, nother, err,
          wait, turns, branch, result, outer>>

\* ---------------------------------------------------------------- values

Max(a, b) == IF a >= b THEN a ELSE b

RECURSIVE Pow2(_)
Pow2(n) == IF n <= 0 THEN 1 ELSE 2 * Pow2(n - 1)

\* A Python str, or None.
Str(s) == [isNone |-> FALSE, s |-> s]
NoneStr == [isNone |-> TRUE, s |-> <<>>]

\* Python truthiness of a str-or-None value.
Truthy(v) == ~v.isNone /\ Len(v.s) > 0

RECURSIVE LStrip(_)
LStrip(s) == IF s # <<>> /\ Head(s) = " " THEN LStrip(Tail(s)) ELSE s

RECURSIVE RStrip(_)
RStrip(s) ==
    IF s # <<>> /\ s[Len(s)] = " " THEN RStrip(SubSeq(s, 1, Len(s) - 1)) ELSE s

\* str.strip()
Strip(s) == RStrip(LStrip(s))

\* An exception object: its class and its message.
Exc(cls, msg) == [cls |-> cls, msg |-> msg]
NoExc == Exc("none", "")

\* The class hierarchy of the exceptions raised in the calls: every one of
\* them derives from Exception.
Parent(cls) ==
    CASE cls = "GeminiQuotaExceeded" -> "Exception"
      [] cls = "GeminiRateLimited" -> "Exception"
      [] cls = "ValueError" -> "Exception"
      [] cls = "AttributeError" -> "Exception"
      [] cls = "IndexError" -> "Exception"
      [] cls = "RequestException" -> "Exception"
      [] cls = "APIError" -> "Exception"
      [] OTHER -> "BaseException"

\* isinstance(e, base), as an except clause tests it.
IsInstance(cls, base) ==
    \/ cls = base
    \/ Parent(cls) = base
    \/ base = "BaseException"

\* ------------------------------------------------------- server responses

\* A retry hint carried by a response: absent, unparsable, or a number of
\* tenths of a second.
NoHint == [kind |-> "absent", t |-> 0]
BadHint == [kind |-> "bad", t |-> 0]
Hint(t) == [kind |-> "num", t |-> t]

\* A Gemini HTTP exchange. net: session.post raised instead of answering.
\* markers / msgMarkers: the phrases found in resp.text / in
\* resp.json()["error"]["message"]. header: Retry-After; bodyHint / msgHint:
\* "retry in Ns" found in resp.text / in the error message.
GResp(net, status, cands, parts, text, markers, msgMarkers, header, bodyHint, msgHint) ==
    [net |-> net, status |-> status, cands |-> cands, parts |-> parts,
     text |-> text, markers |-> markers, msgMarkers |-> msgMarkers,
     header |-> header, bodyHint |-> bodyHint, msgHint |-> msgHint]

GPlain(status) ==
    GResp(FALSE, status, 0, 0, <<>>, {}, {}, NoHint, NoHint, NoHint)
G200(cands, parts, text) ==
    GResp(FALSE, 200, cands, parts, text, {}, {}, NoHint, NoHint, NoHint)
G429(markers, msgMarkers, header, bodyHint, msgHint) ==
    GResp(FALSE, 429, 0, 0, <<>>, markers, msgMarkers, header, bodyHint,
          msgHint)

GeminiResponses ==
    { GResp(TRUE, 0, 0, 0, <<>>, {}, {}, NoHint, NoHint, NoHint),
      G200(1, 1, <<"a">>),
      G200(0, 0, <<>>),
      G200(1, 0, <<>>),
      G200(1, 1, <<>>),
      G429({"quota exceeded"}, {}, NoHint, NoHint, NoHint),
      G429({"free_tier", "limit"}, {}, Hint(70), NoHint, NoHint),
      G429({}, {"exceeded your current quota"}, NoHint, NoHint, NoHint),
      G429({"free_tier"}, {}, NoHint, NoHint, NoHint),
      G429({}, {}, Hint(10), NoHint, NoHint),
      G429({}, {}, Hint(4), NoHint, NoHint),
      G429({}, {}, BadHint, Hint(70), NoHint),
      G429({}, {}, NoHint, NoHint, Hint(35)),
      GPlain(503),
      GPlain(400),
      GPlain(500) }

\* A DeepSeek HTTP exchange. content: choices[0]["message"]["content"].
DResp(net, status, choices, content) ==
    [net |-> net, status |-> status, choices |-> choices, content |-> content]

DeepSeekResponses ==
    { DResp(TRUE, 0, 0, Str(<<>>)),
      DResp(FALSE, 200, 1, Str(<<" ", "a", " ">>)),
      DResp(FALSE, 200, 0, Str(<<>>)),
      DResp(FALSE, 200, 1, Str(<<>>)),
      DResp(FALSE, 200, 1, Str(<<" ">>)),
      DResp(FALSE, 200, 1, NoneStr),
      DResp(FALSE, 429, 0, Str(<<>>)),
      DResp(FALSE, 401, 0, Str(<<>>)),
      DResp(FALSE, 503, 0, Str(<<>>)) }

\* An OpenAI exchange. raised: client.chat.completions.create raised.
OResp(raised, choices, content) ==
    [raised |-> raised, choices |-> choices, content |-> content]

OpenAIResponses ==
    { OResp(TRUE, 0, NoneStr),
      OResp(FALSE, 0, NoneStr),
      OResp(FALSE, 1, Str(<<"a">>)),
      OResp(FALSE, 1, Str(<<>>)),
      OResp(FALSE, 1, NoneStr) }

\* ------------------------------------------------ _extract_retry_seconds

\* int(float(x)) of a non-negative number given in tenths.
IntOfTenths(t) == t \div 10

\* _extract_retry_seconds: the Retry-After header when it is non-empty and
\* parses, else "retry in Ns" in the body text, else the same phrase in the
\* JSON error message, else 0. Every hint found is raised to at least 1.
ExtractRetrySeconds(resp) ==
    IF resp.header.kind = "num" THEN Max(1, IntOfTenths(resp.header.t))
    ELSE IF resp.bodyHint.kind = "num"
    THEN Max(1, IntOfTenths(resp.bodyHint.t))
    ELSE IF resp.msgHint.kind = "num" THEN Max(1, IntOfTenths(resp.msgHint.t))
    ELSE 0

\* _is_quota_exhausted
IsQuotaExhausted(resp) ==
    \/ "quota exceeded" \in resp.markers
    \/ "exceeded your current quota" \in resp.markers
    \/ ("free_tier" \in resp.markers /\ "limit" \in resp.markers)
    \/ "quota exceeded" \in resp.msgMarkers
    \/ "exceeded your current quota" \in resp.msgMarkers

\* int(base_sleep * (2 ** (attempt - 1)) + random.random() * 2), base_sleep
\* and the jitter in tenths, the result in seconds.
GeminiBackoff(base, a, jitter) == IntOfTenths(base * Pow2(a - 1) + jitter)

\* GeminiRetryDelay taking the larger of the hint and the backoff.
GeminiRetryDelay_Max(resp, base, a, jitter) ==
    Max(ExtractRetrySeconds(resp), GeminiBackoff(base, a, jitter))

\* retry_s on a 429 that is not quota exhaustion (lines 104-106).
GeminiRetryDelay(resp, base, a, jitter) ==
    IF ExtractRetrySeconds(resp) <= 0
    THEN GeminiBackoff(base, a, jitter)
    ELSE ExtractRetrySeconds(resp)

\* base_sleep * (2 ** (attempt - 1)) of the DeepSeek loop, seconds.
DeepSeekBackoff(a) == DeepSeekBaseSleep * Pow2(a - 1)

\* ------------------------------------------------------ outcome of a step

\* What one pass of a retry loop, or one call, does: returns a text, sleeps
\* and goes round again, or lets an exception leave the function.
\* cls classifies the exchange: "success", "malformed", "quota",
\* "transient429", "overloaded", "fatal", "exception". hint is what
\* _extract_retry_seconds gave (0 when it was not consulted or found
\* nothing), jitter the random term drawn (0 when none was drawn).
Return(cls, text) ==
    [kind |-> "return", cls |-> cls, text |-> text, exc |-> NoExc,
     secs |-> 0, hint |-> 0, jitter |-> 0]
Sleep(cls, secs, hint, jitter) ==
    [kind |-> "sleep", cls |-> cls, text |-> NoneStr, exc |-> NoExc,
     secs |-> secs, hint |-> hint, jitter |-> jitter]
Raise(cls, exc) ==
    [kind |-> "raise", cls |-> cls, text |-> NoneStr, exc |-> exc,
     secs |-> 0, hint |-> 0, jitter |-> 0]

HttpMsg(status) ==
    CASE status = 400 -> "HTTP 400"
      [] status = 401 -> "HTTP 401"
      [] status = 429 -> "HTTP 429"
      [] status = 500 -> "HTTP 500"
      [] status = 503 -> "HTTP 503"
      [] OTHER -> "HTTP other"

\* The body of the try statement of call_gemini_http (lines 87-119): what it
\* returns, the sleep it takes before `continue`, or what it raises.
GeminiTry(resp, a, m, base, jitter) ==
    IF resp.net THEN Raise("exception", Exc("RequestException", "connection"))
    ELSE IF resp.status = 200
    THEN IF resp.cands = 0
         THEN Raise("malformed", Exc("ValueError", "No candidates"))
         ELSE IF resp.parts = 0
         THEN Raise("malformed", Exc("ValueError", "Empty parts"))
         ELSE IF ~Truthy(Str(resp.text))
         THEN Raise("malformed", Exc("ValueError", "Empty text"))
         ELSE Return("success", Str(resp.text))
    ELSE IF resp.status = 429
    THEN IF IsQuotaExhausted(resp)
         THEN Raise("quota", Exc("GeminiQuotaExceeded", "429 quota body"))
         ELSE IF a = m
         THEN Raise("transient429", Exc("GeminiRateLimited", "429 body"))
         ELSE Sleep("transient429", GeminiRetryDelay(resp, base, a, jitter),
                    ExtractRetrySeconds(resp),
                    IF ExtractRetrySeconds(resp) <= 0 THEN jitter ELSE 0)
    ELSE IF resp.status = 503
    THEN IF a = m
         THEN Raise("overloaded", Exc("Exception", "Gemini 503 final"))
         ELSE Sleep("overloaded", GeminiBackoff(base, a, jitter), 0, jitter)
    ELSE Raise("fatal", Exc("Exception", HttpMsg(resp.status)))

\* GeminiHandler without `except GeminiQuotaExceeded: raise`: quota
\* exhaustion is slept on like any other exception.
GeminiHandler_QuotaRetried(t, a, m, base, jitter) ==
    IF t.kind # "raise" THEN t
    ELSE IF ~IsInstance(t.exc.cls, "Exception") THEN t
    ELSE IF a = m THEN t
    ELSE Sleep(t.cls, GeminiBackoff(base, a, jitter), 0, jitter)

\* GeminiHandler without `if attempt == max_retries: raise`: it sleeps
\* after the last attempt too.
GeminiHandler_SleepsAtEnd(t, a, m, base, jitter) ==
    IF t.kind # "raise" THEN t
    ELSE IF IsInstance(t.exc.cls, "GeminiQuotaExceeded") THEN t
    ELSE IF ~IsInstance(t.exc.cls, "Exception") THEN t
    ELSE Sleep(t.cls, GeminiBackoff(base, a, jitter), 0, jitter)

\* The except clauses of the loop (lines 120-128) applied to what the try
\* body did: GeminiQuotaExceeded leaves the function at once; any other
\* Exception leaves it on the last attempt and is slept on otherwise.
GeminiHandler(t, a, m, base, jitter) ==
    IF t.kind # "raise" THEN t
    ELSE IF IsInstance(t.exc.cls, "GeminiQuotaExceeded") THEN t
    ELSE IF ~IsInstance(t.exc.cls, "Exception") THEN t
    ELSE IF a = m THEN t
    ELSE Sleep(t.cls, GeminiBackoff(base, a, jitter), 0, jitter)

\* One pass of the loop of call_gemini_http.
GeminiOutcome(resp, a, m, base, jitter) ==
    GeminiHandler(GeminiTry(resp, a, m, base, jitter), a, m, base, jitter)

\* The body of the try statement of call_deepseek_siliconflow (lines
\* 166-175). raise_for_status raises HTTPError, a RequestException, on a
\* status of 400 and above.
DeepSeekTry(resp) ==
    IF resp.net THEN Raise("exception", Exc("RequestException", "connection"))
    ELSE IF resp.status >= 400
    THEN Raise(CASE resp.status = 429 -> "transient429"
                 [] resp.status = 503 -> "overloaded"
                 [] OTHER -> "fatal",
               Exc("RequestException", HttpMsg(resp.status)))
    ELSE IF resp.choices = 0
    THEN Raise("malformed", Exc("ValueError", "DeepSeek empty result"))
    ELSE IF resp.content.isNone
    THEN Raise("malformed", Exc("AttributeError", "NoneType has no strip"))
    ELSE IF ~Truthy(Str(Strip(resp.content.s)))
    THEN Raise("malformed", Exc("ValueError", "DeepSeek empty content"))
    ELSE Return("success", Str(Strip(resp.content.s)))

\* The except clause of the loop (lines 176-182): only a RequestException
\* is caught; on the last attempt it is replaced by a new Exception.
DeepSeekHandler(t, a) ==
    IF t.kind # "raise" THEN t
    ELSE IF ~IsInstance(t.exc.cls, "RequestException") THEN t
    ELSE IF a = DeepSeekMaxRetries
    THEN Raise(t.cls, Exc("Exception", "DeepSeek call failed"))
    ELSE Sleep(t.cls, DeepSeekBackoff(a), 0, 0)

\* One pass of the loop of call_deepseek_siliconflow.
DeepSeekOutcome(resp, a) == DeepSeekHandler(DeepSeekTry(resp), a)

\* call_openai_official after the key check (lines 305-314): the content of
\* the first choice is returned as it is.
OpenAIOutcome(resp) ==
    IF resp.raised THEN Raise("exception", Exc("APIError", "openai api error"))
    ELSE IF resp.choices = 0
    THEN Raise("malformed", Exc("IndexError", "list index out of range"))
    ELSE Return("success", resp.content)

\* ------------------------------------------------------------ ai_analyze

NoWait == [pending |-> FALSE, secs |-> 0, hint |-> 0, jitter |-> 0]
Pending(o) ==
    [pending |-> TRUE, secs |-> o.secs, hint |-> o.hint, jitter |-> o.jitter]

NoResult == [kind |-> "none", src |-> "none", text |-> NoneStr, parts |-> <<>>]

\* `return call_x(prompt)`: the provider's text is the value of ai_analyze.
TextResult(p, text) ==
    [kind |-> "text", src |-> p, text |-> text, parts |-> <<>>]

\* The f-string returned when the OpenAI call raises (lines 333, 339, 345):
\* each provider's label and the message of its exception.
Composite(e1, label, e2, e3) ==
    [kind |-> "composite", src |-> "none", text |-> NoneStr,
     parts |-> << <<"DeepSeek Error", e1.msg>>, <<label, e2.msg>>,
                  <<"OpenAI Error", e3.msg>> >>]

\* `return "Error: No Prompt"` (line 318).
NoPromptResult ==
    [kind |-> "noprompt", src |-> "none", text |-> NoneStr, parts |-> <<>>]

\* No except clause matched: the exception leaves ai_analyze.
RaisedResult ==
    [kind |-> "raised", src |-> "none", text |-> NoneStr, parts |-> <<>>]

\* Caught without the last clause around the Gemini call (line 340).
Caught_NoGenericClause(p, exc) ==
    IF p = "gemini"
    THEN IF IsInstance(exc.cls, "GeminiQuotaExceeded") THEN "quota"
         ELSE IF IsInstance(exc.cls, "GeminiRateLimited") THEN "ratelimit"
         ELSE "none"
    ELSE IF IsInstance(exc.cls, "Exception") THEN "caught" ELSE "none"

\* The except clause of ai_analyze that catches the exception a provider's
\* call raised, "none" when no clause does. Around the Gemini call the
\* clauses are tried in the order written (lines 328, 334, 340).
Caught(p, exc) ==
    IF p = "gemini"
    THEN IF IsInstance(exc.cls, "GeminiQuotaExceeded") THEN "quota"
         ELSE IF IsInstance(exc.cls, "GeminiRateLimited") THEN "ratelimit"
         ELSE IF IsInstance(exc.cls, "Exception") THEN "other"
         ELSE "none"
    ELSE IF IsInstance(exc.cls, "Exception") THEN "caught" ELSE "none"

\* GeminiLabel with one wording for the three clauses.
GeminiLabel_OneWording(b) == "Gemini Error"

\* The label the composite text gives Gemini's error in each clause.
GeminiLabel(b) ==
    CASE b = "quota" -> "Gemini Quota Error"
      [] b = "ratelimit" -> "Gemini RateLimit Error"
      [] OTHER -> "Gemini Error"

\* The provider whose call the except clause around p's call makes.
NextProvider(p) ==
    CASE p = "deepseek" -> "gemini"
      [] p = "gemini" -> "openai"
      [] OTHER -> "done"

\* AfterReturn with the `return` lost: the next provider is called although
\* p answered.
AfterReturn_FallsThrough(p) == NextProvider(p)

\* Where ai_analyze stands once p's call has returned a text.
AfterReturn(p) == "done"

\* The provider tried first (line 322).
FirstProvider == "deepseek"

Count(cls, n, classes) == IF cls \in classes THEN n + 1 ELSE n

\* The bookkeeping of one HTTP exchange of provider p with outcome o.
Exchange(p, o) ==
    /\ https' = [https EXCEPT ![p] = @ + 1]
    /\ last' = [last EXCEPT ![p] = o.cls]
    /\ nretry' = [nretry EXCEPT
                    ![p] = Count(o.cls, @, {"transient429", "overloaded"})]
    /\ nother' = [nother EXCEPT
                    ![p] = Count(o.cls, @,
                                 {"malformed", "quota", "fatal", "exception"})]

\* NoExchange with the key looked at only after a request was sent.
NoExchange_OneRequest(p, cls) ==
    /\ last' = [last EXCEPT ![p] = cls]
    /\ https' = [https EXCEPT ![p] = @ + 1]
    /\ UNCHANGED <<nretry, nother>>

\* p's call ends before its loop: no HTTP exchange is made.
NoExchange(p, cls) ==
    /\ last' = [last EXCEPT ![p] = cls]
    /\ UNCHANGED <<https, nretry, nother>>

\* p's call returned text: ai_analyze returns it.
Returns(p, text) ==
    /\ phase' = [phase EXCEPT ![p] = "succeeded"]
    /\ result' = TextResult(p, text)
    /\ pc' = AfterReturn(p)
    /\ UNCHANGED <<err, branch, wait>>

\* p's call raised exc: the except clause around it runs, or the exception
\* leaves ai_analyze when no clause catches it.
Raises(p, exc) ==
    /\ phase' = [phase EXCEPT ![p] = "exhausted"]
    /\ err' = [err EXCEPT ![p] = exc]
    /\ wait' = NoWait
    /\ IF Caught(p, exc) = "none"
       THEN /\ pc' = "done"
            /\ result' = RaisedResult
            /\ UNCHANGED branch
       ELSE IF p = "openai"
       THEN /\ pc' = "done"
            /\ result' = Composite(err["deepseek"], GeminiLabel(branch),
                                   err["gemini"], exc)
            /\ UNCHANGED branch
       ELSE /\ pc' = NextProvider(p)
            /\ branch' = IF p = "gemini" THEN Caught(p, exc) ELSE branch
            /\ UNCHANGED result

\* p's loop sleeps before its next pass.
Retries(p, o) ==
    /\ phase' = [phase EXCEPT ![p] = "retrying"]
    /\ wait' = Pending(o)
    /\ UNCHANGED <<pc, err, branch, result>>

Apply(p, o) ==
    CASE o.kind = "return" -> Returns(p, o.text)
      [] o.kind = "sleep" -> Retries(p, o)
      [] OTHER -> Raises(p, o.exc)

\* SleepDone with the time.sleep call lost: the loop goes round at once.
SleepDone_NoSleep(p) ==
    /\ pc = p
    /\ phase[p] = "retrying"
    /\ attempt' = [attempt EXCEPT ![p] = @ + 1]
    /\ phase' = [phase EXCEPT ![p] = "attempting"]
    /\ wait' = NoWait
    /\ UNCHANGED <<outer, env, pc, https, sleeps, last, nretry, nother, err, turns,
                   branch, result>>

\* time.sleep(retry_s), then the next value of `attempt`.
SleepDone(p) ==
    /\ pc = p
    /\ phase[p] = "retrying"
    /\ sleeps' = [sleeps EXCEPT ![p] = @ + 1]
    /\ attempt' = [attempt EXCEPT ![p] = @ + 1]
    /\ phase' = [phase EXCEPT ![p] = "attempting"]
    /\ wait' = NoWait
    /\ UNCHANGED <<outer, env, pc, https, last, nretry, nother, err, turns, branch,
                   result>>

\* ------------------------------------------------ stock identifiers

\* Width of a stock code: zfill(6).
IdWidth == 6

\* Longest raw identifier (sheet cell, message text) explored.
MaxIdLen == 7

\* The characters raw identifiers are made of here: two digits and a
\* character that is not a digit.
IdChars == {"0", "1", "a"}

IdStrings == UNION {[1 .. k -> IdChars] : k \in 0 .. MaxIdLen}

\* str.isdigit on one character.
IsDigit(c) == c \in {"0", "1", "2", "3", "4", "5", "6", "7", "8", "9"}

\* ''.join(filter(str.isdigit, str(symbol)))
RECURSIVE FilterDigits(_)
FilterDigits(s) ==
    IF s = <<>> THEN <<>>
    ELSE IF IsDigit(Head(s)) THEN <<Head(s)>> \o FilterDigits(Tail(s))
    ELSE FilterDigits(Tail(s))

\* str.zfill(w) of a string of digits: zeros are put in front while the
\* string is shorter than w; a longer string is left as it is.
RECURSIVE ZFill(_, _)
ZFill(s, w) == IF Len(s) >= w THEN s ELSE ZFill(<<"0">> \o s, w)

\* The normalisation written out in fetch_stock_data_dynamic,
\* process_one_stock, _parse_records, add_or_update_stock and remove_stock.
Normalize(raw) == ZFill(FilterDigits(raw), IdWidth)

ZeroCode == <<"0", "0", "0", "0", "0", "0">>

\* An optional stock code.
NoCode == [ok |-> FALSE, code |-> <<>>]
Code(c) == [ok |-> TRUE, code |-> c]

\* ParseRecordCode without line 90: every row is kept.
ParseRecordCode_Unfiltered(raw) == Code(Normalize(raw))

\* _parse_records, lines 86-90, on the Code cell of one row: the row is
\* skipped when the normalised code is empty or "000000".
ParseRecordCode(raw) ==
    IF Normalize(raw) = <<>> \/ Normalize(raw) = ZeroCode
    THEN NoCode
    ELSE Code(Normalize(raw))

\* re.search(r"\d{6}", text) of parse_command (add_stock.py, lines 34-36):
\* the first six consecutive digits, None when there are none.
RECURSIVE ParseCommandCode(_)
ParseCommandCode(text) ==
    IF Len(text) < IdWidth THEN NoCode
    ELSE IF \A i \in 1 .. IdWidth : IsDigit(text[i])
    THEN Code(SubSeq(text, 1, IdWidth))
    ELSE ParseCommandCode(Tail(text))

\* A use of an identifier: op is what was done, raw the value it started
\* from, used the keys handed to the sheet or to the data source.
KeyUse(op, raw, used) == [op |-> op, raw |-> raw, used |-> used]
NoKey == KeyUse("off", <<>>, <<>>)

\* ------------------------------------------ fetch_stock_data_dynamic

\* len(df) > 500 and df.tail(500).
RowCeiling == 500

\* timedelta(days=40): how far back start_date reaches.
HistoryDays == 40

\* Most rows the data source returns here.
MaxRows == 502

\* Days, as day numbers. The run happens on day Today.
Today == 100

\* position_info.get('date'): absent, not a date, or a day.
NoDate == [kind |-> "none", day |-> 0]
BadDate == [kind |-> "bad", day |-> 0]
Date(d) == [kind |-> "day", day |-> d]

BuyDates == {NoDate, BadDate, Date(30), Date(95)}

\* What ak.stock_zh_a_hist_min_em does: raises, or returns n rows; bad:
\* a column of the rows cannot be converted (to_datetime / astype raise).
Source(raises, n, bad) == [raises |-> raises, n |-> n, bad |-> bad]

\* The rows the data source returned, oldest first, named by their place.
SourceRows(n) == [i \in 1 .. n |-> i]

\* TailRows keeping the oldest rows: df.head(k).
TailRows_Head(rows, k) ==
    IF Len(rows) > k THEN SubSeq(rows, 1, k) ELSE rows

\* df.tail(k).reset_index(drop=True) when len(df) > k (lines 210-211).
TailRows(rows, k) ==
    IF Len(rows) > k
    THEN SubSeq(rows, Len(rows) - k + 1, Len(rows))
    ELSE rows

\* The value of fetch_stock_data_dynamic(symbol, buy_date_str) on day now,
\* or the exception that leaves it. One request is made, for 5-minute bars
\* from now - 40 days on; buy_date_str is not read.
FetchResult(df, raised, symbolCode, start) ==
    [df |-> df, period |-> "5m", raised |-> raised, requests |-> 1,
     requested |-> "5", symbolCode |-> symbolCode, start |-> start]

FetchStockData(symbol, buyDate, now, src) ==
    IF src.raises
    THEN FetchResult(<<>>, FALSE, Normalize(symbol), now - HistoryDays)
    ELSE IF src.n = 0
    THEN FetchResult(<<>>, FALSE, Normalize(symbol), now - HistoryDays)
    ELSE IF src.bad
    THEN FetchResult(<<>>, TRUE, Normalize(symbol), now - HistoryDays)
    ELSE FetchResult(TailRows(SourceRows(src.n), RowCeiling), FALSE,
                     Normalize(symbol), now - HistoryDays)

\* A call of fetch_stock_data_dynamic studied on its own: its arguments,
\* what the data source does, and, once it has returned, its result.
FetchCall(symbol, buyDate, src) ==
    [phase |-> "called", symbol |-> symbol, buyDate |-> buyDate, src |-> src,
     out |-> FetchResult(<<>>, FALSE, <<>>, 0)]

\* The call has returned r.
Fetched(symbol, buyDate, src, r) ==
    [phase |-> "returned", symbol |-> symbol, buyDate |-> buyDate,
     src |-> src, out |-> r]

NoFetch ==
    [phase |-> "off", symbol |-> <<>>, buyDate |-> NoDate,
     src |-> Source(FALSE, 0, FALSE), out |-> FetchResult(<<>>, FALSE, <<>>, 0)]

\* ------------------------------------------- get_prompt_content

\* A template is None, the empty string, or a text.
NoTemplate == "None"

\* `not prompt_template`.
Falsy(t) == t \in {NoTemplate, ""}

\* What WYCKOFF_PROMPT_TEMPLATE can hold: unset (None), empty, a text.
EnvTemplates == {NoTemplate, "", "template A"}

\* prompt_secret.txt: absent, unreadable, or its content.
Files == {"absent", "unreadable", "", "template A", "template B"}

\* get_prompt_content, lines 264-270: the environment variable, and the
\* file when the variable gave nothing and the file exists; a file that
\* cannot be read gives None.
ReadTemplate(envv, file) ==
    IF ~Falsy(envv) THEN envv
    ELSE IF file = "absent" THEN envv
    ELSE IF file = "unreadable" THEN NoTemplate
    ELSE file

\* _PROMPT_CACHE with what surrounds it: the two sources, how often
\* get_prompt_content was called and how often it read the sources, what
\* the first read obtained and the template the last call worked with.
PromptState(cache, envv, file, calls, reads, first, got) ==
    [cache |-> cache, envv |-> envv, file |-> file, calls |-> calls,
     reads |-> reads, first |-> first, got |-> got]

NoPrompt ==
    PromptState(NoTemplate, NoTemplate, "absent", 0, 0, NoTemplate,
                NoTemplate)

\* Most calls of get_prompt_content in one run explored.
MaxPromptCalls == 3

\* ------------------------------------------------- SheetManager

\* Most rows the sheet gets here, the header row not counted.
MaxSheetRows == 2

\* The rows below the header, each <<Code, BuyDate, Qty, Price>>, and the
\* last call made on the sheet: the method, the code it was given, what
\* it returned and the rows it found.
SheetState(rows, op, code, ret, before) ==
    [rows |-> rows, op |-> op, code |-> code, ret |-> ret, before |-> before]

NoSheet == SheetState(<<>>, "off", <<>>, "None", <<>>)

\* The codes the methods are called with here: "1", which is normalised
\* to "000001", and "000002".
StoreCodes == {<<"1">>, <<"0", "0", "0", "0", "0", "2">>}

\* The quantities they are called with: none, or 2 written like a code.
StoreQtys == {<<>>, <<"0", "0", "0", "0", "0", "2">>}

\* `date or datetime.now().strftime("%Y-%m-%d")`, `qty or 0` and
\* `price or 0.0` (lines 105-107) as the cells are written.
DateCell(date) == IF date = <<>> THEN <<"t", "o", "d", "a", "y">> ELSE date
QtyCell(qty) == IF qty = <<>> THEN <<"0">> ELSE qty
PriceCell(price) == IF price = <<>> THEN <<"0", ".", "0">> ELSE price

\* cell.row of self.sheet.find(code): the row of the first cell of the
\* sheet, whatever its column, whose value is the query; 0 stands for
\* CellNotFound.
FindRow(rows, query) ==
    IF \E i \in 1 .. Len(rows) : \E j \in 1 .. 4 : rows[i][j] = query
    THEN CHOOSE i \in 1 .. Len(rows) :
            /\ \E j \in 1 .. 4 : rows[i][j] = query
            /\ \A k \in 1 .. i - 1 : \A j \in 1 .. 4 : rows[k][j] # query
    ELSE 0

\* self.sheet.delete_rows(r).
DeleteRow(rows, r) ==
    [k \in 1 .. Len(rows) - 1 |-> IF k < r THEN rows[k] ELSE rows[k + 1]]

\* The keys of get_all_stocks(): the codes _parse_records files the rows
\* under.
ListStocks(rows) ==
    {ParseRecordCode(rows[i][1]).code :
        i \in {k \in 1 .. Len(rows) : ParseRecordCode(rows[k][1]).ok}}

\* ------------------------------------------------------------- main

\* push_list.txt: absent, or its lines.
NoFile == [exists |-> FALSE, lines |-> <<>>]
File(lines) == [exists |-> TRUE, lines |-> lines]

\* Most positions the sheet lists here.
MaxPositions == 2

\* GEMINI_MAX_RETRIES of the environment main runs in here.
BatchGeminiRetries == 1

\* The digit that tells the positions of the sheet apart.
PositionDigit == <<"1", "2", "3", "4", "5", "6", "7", "8", "9">>

\* list(stocks_dict.items()) for a sheet of n rows: n distinct codes, as
\* _parse_records made them.
PositionItems(n) == [i \in 1 .. n |-> Normalize(<<PositionDigit[i]>>)]

\* What the data source does for a position while main runs.
BatchSources ==
    {Source(TRUE, 0, FALSE), Source(FALSE, 0, FALSE), Source(FALSE, 1, FALSE),
     Source(FALSE, 1, TRUE)}

\* pdf_path of process_one_stock (line 405) for a symbol and a period.
PdfPath(symbol, period) == [symbol |-> symbol, period |-> period]

\* What main knows of a position: how often process_one_stock was started
\* for it, how that call ended ("pending" until it has: "skipped" and
\* "renderfail" are its two `return None`, "raised" an exception caught
\* by main, "report" a returned pdf_path).
NewEntry == [started |-> 0, outcome |-> "pending"]

\* info['date'] of a position: _parse_records puts the day of the run
\* where the sheet has no BuyDate.
PositionDate == Date(Today)

\* Skips without the test: process_one_stock goes on with an empty df.
Skips_Never(df) == FALSE

\* process_one_stock, lines 396-398: `if df.empty: return None`.
Skips(df) == df = <<>>

Init ==
    /\ env \in [prompt : BOOLEAN,
                keys : [Providers -> BOOLEAN],
                maxRetries : 0 .. MaxGeminiRetries,
                baseSleep : BaseSleeps]
    /\ pc = "start"
    /\ phase = [p \in Providers |-> "idle"]
    /\ attempt = [p \in Providers |-> 0]
    /\ https = [p \in Providers |-> 0]
    /\ sleeps = [p \in Providers |-> 0]
    /\ last = [p \in Providers |-> "none"]
    /\ nretry = [p \in Providers |-> 0]
    /\ nother = [p \in Providers |-> 0]
    /\ err = [p \in Providers |-> NoExc]
    /\ wait = NoWait
    /\ turns = [p \in Providers |-> 0]
    /\ branch = "none"
    /\ result = NoResult
    /\ bpc = "off"
    /\ items = <<>>
    /\ idx = 0
    /\ generated = <<>>
    /\ pushList = NoFile
    /\ cooldowns = 0
    /\ log = <<>>
    /\ fetch = NoFetch
    /\ key = NoKey
    /\ promptCache = NoPrompt
    /\ sheet = NoSheet

\* ai_analyze, lines 316-321: without a prompt nothing is called.
AnalyzeStart ==
    /\ pc = "start"
    /\ IF ~env.prompt
       THEN /\ pc' = "done"
            /\ result' = NoPromptResult
       ELSE /\ pc' = FirstProvider
            /\ UNCHANGED result
    /\ UNCHANGED <<outer, env, phase, attempt, https, sleeps, last, nretry, nother,
                   err, wait, turns, branch>>

\* call_deepseek_siliconflow up to the loop (lines 137-164).
DeepSeekBegin ==
    /\ pc = "deepseek"
    /\ phase["deepseek"] = "idle"
    /\ turns' = [turns EXCEPT !["deepseek"] = @ + 1]
    /\ IF ~env.keys["deepseek"]
       THEN /\ Raises("deepseek", Exc("ValueError", "DEEPSEEK_API_KEY missing"))
            /\ NoExchange("deepseek", "missingkey")
            /\ UNCHANGED attempt
       ELSE /\ phase' = [phase EXCEPT !["deepseek"] = "attempting"]
            /\ attempt' = [attempt EXCEPT !["deepseek"] = 1]
            /\ UNCHANGED <<pc, https, last, nretry, nother, err, wait, branch,
                           result>>
    /\ UNCHANGED <<outer, env, sleeps>>

\* One pass of the loop of call_deepseek_siliconflow (lines 164-182).
DeepSeekAttempt ==
    /\ pc = "deepseek"
    /\ phase["deepseek"] = "attempting"
    /\ \E resp \in DeepSeekResponses :
          LET o == DeepSeekOutcome(resp, attempt["deepseek"])
          IN  /\ Exchange("deepseek", o)
              /\ Apply("deepseek", o)
    /\ UNCHANGED <<outer, env, attempt, sleeps, turns>>

DeepSeekSleep == SleepDone("deepseek")

\* call_gemini_http up to the loop (lines 62-85), and line 129 when the
\* loop body never runs.
GeminiBegin ==
    /\ pc = "gemini"
    /\ phase["gemini"] = "idle"
    /\ turns' = [turns EXCEPT !["gemini"] = @ + 1]
    /\ IF ~env.keys["gemini"]
       THEN /\ Raises("gemini", Exc("ValueError", "GEMINI_API_KEY missing"))
            /\ NoExchange("gemini", "missingkey")
            /\ UNCHANGED attempt
       ELSE IF env.maxRetries < 1
       THEN /\ Raises("gemini", Exc("Exception", "Gemini unknown failure"))
            /\ NoExchange("gemini", "noattempt")
            /\ UNCHANGED attempt
       ELSE /\ phase' = [phase EXCEPT !["gemini"] = "attempting"]
            /\ attempt' = [attempt EXCEPT !["gemini"] = 1]
            /\ UNCHANGED <<pc, https, last, nretry, nother, err, wait, branch,
                           result>>
    /\ UNCHANGED <<outer, env, sleeps>>

\* One pass of the loop of call_gemini_http (lines 85-128).
GeminiAttempt ==
    /\ pc = "gemini"
    /\ phase["gemini"] = "attempting"
    /\ \E resp \in GeminiResponses, jitter \in Jitters :
          LET o == GeminiOutcome(resp, attempt["gemini"], env.maxRetries,
                                 env.baseSleep, jitter)
          IN  /\ Exchange("gemini", o)
              /\ Apply("gemini", o)
    /\ UNCHANGED <<outer, env, attempt, sleeps, turns>>

GeminiSleep == SleepDone("gemini")

\* call_openai_official (lines 300-314), called from an except clause of
\* ai_analyze.
OpenAICall ==
    /\ pc = "openai"
    /\ phase["openai"] = "idle"
    /\ turns' = [turns EXCEPT !["openai"] = @ + 1]
    /\ IF ~env.keys["openai"]
       THEN /\ Raises("openai", Exc("ValueError", "OpenAI Key missing"))
            /\ NoExchange("openai", "missingkey")
       ELSE \E resp \in OpenAIResponses :
               LET o == OpenAIOutcome(resp)
               IN  /\ Exchange("openai", o)
                   /\ Apply("openai", o)
    /\ UNCHANGED <<outer, env, attempt, sleeps>>

Next ==
    \/ AnalyzeStart
    \/ DeepSeekBegin
    \/ DeepSeekAttempt
    \/ DeepSeekSleep
    \/ GeminiBegin
    \/ GeminiAttempt
    \/ GeminiSleep
    \/ OpenAICall

Spec == Init /\ [][Next]_vars

\* The program runs to completion: it is a single thread, every HTTP call
\* has a timeout and every time.sleep ends.
LiveSpec == Spec /\ WF_vars(Next)

\* ------------------------------------------------------------- main

\* The locals of the provider calls as a call of ai_analyze finds them and
\* as its return leaves them.
CallsFresh ==
    /\ phase' = [p \in Providers |-> "idle"]
    /\ attempt' = [p \in Providers |-> 0]
    /\ https' = [p \in Providers |-> 0]
    /\ sleeps' = [p \in Providers |-> 0]
    /\ last' = [p \in Providers |-> "none"]
    /\ nretry' = [p \in Providers |-> 0]
    /\ nother' = [p \in Providers |-> 0]
    /\ err' = [p \in Providers |-> NoExc]
    /\ wait' = NoWait
    /\ turns' = [p \in Providers |-> 0]
    /\ branch' = "none"

\* ai_analyze is entered.
AnalyzeCall ==
    /\ pc' = "start"
    /\ result' = NoResult
    /\ CallsFresh

\* ai_analyze has returned: report_text is what it returned.
AnalyzeReturned ==
    /\ pc' = "off"
    /\ UNCHANGED result
    /\ CallsFresh

\* The locals of the provider calls.
calls == <<phase, attempt, https, sleeps, last, nretry, nother, err, wait,
           turns, branch>>

analysis == <<pc, phase, attempt, https, sleeps, last, nretry, nother, err,
              wait, turns, branch, result>>

\* The API keys of the environment main runs in here: all set, or none.
BatchKeys == {[p \in Providers |-> TRUE], [p \in Providers |-> FALSE]}

\* main starts with no push_list.txt and nothing processed.
BatchInit ==
    /\ env \in [prompt : BOOLEAN,
                keys : BatchKeys,
                maxRetries : {BatchGeminiRetries},
                baseSleep : {25}]
    /\ pc = "off"
    /\ phase = [p \in Providers |-> "idle"]
    /\ attempt = [p \in Providers |-> 0]
    /\ https = [p \in Providers |-> 0]
    /\ sleeps = [p \in Providers |-> 0]
    /\ last = [p \in Providers |-> "none"]
    /\ nretry = [p \in Providers |-> 0]
    /\ nother = [p \in Providers |-> 0]
    /\ err = [p \in Providers |-> NoExc]
    /\ wait = NoWait
    /\ turns = [p \in Providers |-> 0]
    /\ branch = "none"
    /\ result = NoResult
    /\ bpc = "connect"
    /\ items = <<>>
    /\ idx = 0
    /\ generated = <<>>
    /\ pushList = NoFile
    /\ cooldowns = 0
    /\ log = <<>>
    /\ fetch = NoFetch
    /\ key = NoKey
    /\ promptCache = NoPrompt
    /\ sheet = NoSheet

\* main, lines 413-424: SheetManager() raises and main returns, or the
\* sheet lists n positions (none when get_all_stocks caught an error).
Connect ==
    /\ bpc = "connect"
    /\ \E connected \in BOOLEAN, n \in 0 .. MaxPositions :
          IF ~connected
          THEN /\ bpc' = "end"
               /\ UNCHANGED <<items, idx, log>>
          ELSE /\ items' = PositionItems(n)
               /\ log' = [i \in 1 .. n |-> NewEntry]
               /\ idx' = IF n = 0 THEN 0 ELSE 1
               /\ bpc' = IF n = 0 THEN "manifest" ELSE "position"
    /\ UNCHANGED <<env, analysis, generated, pushList, cooldowns, fetch, key,
                   promptCache, sheet>>

\* AfterException without the try statement of main: the exception ends
\* the run.
AfterException_Abort == "end"

\* Where main stands once process_one_stock has raised: the except clause
\* of line 430 prints the exception and the loop body goes on.
AfterException == "cooldown"

\* process_one_stock is called for the position at idx and ends before
\* the chart is drawn.
EndsEarly(outcome) ==
    /\ log' = [log EXCEPT ![idx].started = @ + 1, ![idx].outcome = outcome]
    /\ bpc' = IF outcome = "raised" THEN AfterException ELSE "cooldown"
    /\ result' = NoResult
    /\ UNCHANGED <<pc, calls>>

\* main, lines 425-427, and process_one_stock up to the call of ai_analyze
\* (lines 387-407): no data ends the call with None; an exception of the
\* fetch, of add_indicators or of to_csv leaves it and is caught by main.
StartPosition ==
    /\ bpc = "position"
    /\ \E src \in BatchSources, csv \in BOOLEAN :
          LET r == FetchStockData(Normalize(items[idx]), PositionDate, Today,
                                  src)
          IN  /\ fetch' = Fetched(Normalize(items[idx]), PositionDate, src, r)
              /\ IF r.raised
                 THEN EndsEarly("raised")
                 ELSE IF Skips(r.df)
                 THEN EndsEarly("skipped")
                 ELSE IF ~csv
                 THEN EndsEarly("raised")
                 ELSE /\ log' = [log EXCEPT ![idx].started = @ + 1]
                      /\ bpc' = "analyze"
                      /\ AnalyzeCall
    /\ UNCHANGED <<env, items, idx, generated, pushList, cooldowns, key,
                   promptCache, sheet>>

\* Collect without the test of line 428: an entry is added for a call that
\* returned None too.
Collect_Always(paths, returned, path) == Append(paths, path)

\* main, lines 427-429: the value process_one_stock returned is appended
\* to generated_pdfs when it is a path.
Collect(paths, returned, path) ==
    IF returned THEN Append(paths, path) ELSE paths

\* process_one_stock, lines 408-410: the path is returned when
\* generate_pdf_report returned True.
Produced(rendered) == rendered

\* process_one_stock from the return of ai_analyze on (lines 407-411) and
\* main, lines 427-431: generate_pdf_report raises on a report text of
\* None (markdown.markdown, line 351) and returns False when writing the
\* PDF raised; otherwise it returns True, whatever the text says, and the
\* path is appended to generated_pdfs.
FinishPosition ==
    /\ bpc = "analyze"
    /\ pc = "done"
    /\ \E rendered \in BOOLEAN :
          /\ IF result.kind = "raised"
                \/ (result.kind = "text" /\ result.text.isNone)
             THEN /\ log' = [log EXCEPT ![idx].outcome = "raised"]
                  /\ bpc' = AfterException
                  /\ UNCHANGED generated
             ELSE /\ log' = [log EXCEPT
                               ![idx].outcome =
                                   IF Produced(rendered)
                                   THEN "report" ELSE "renderfail"]
                  /\ generated' = Collect(generated, Produced(rendered),
                                          PdfPath(items[idx], "5m"))
                  /\ bpc' = "cooldown"
    /\ AnalyzeReturned
    /\ UNCHANGED <<env, items, idx, pushList, cooldowns, fetch, key,
                   promptCache, sheet>>

\* SleepsAfter without the test of line 432: main sleeps after every
\* position.
SleepsAfter_Always(i, n) == TRUE

\* main, line 432, `if i < len(items) - 1`, for the i-th of n positions
\* counted from 1.
SleepsAfter(i, n) == i < n

\* main, lines 432-434, and the step of the for loop: time.sleep(60)
\* between two positions, none after the last.
Cooldown ==
    /\ bpc = "cooldown"
    /\ cooldowns' = IF SleepsAfter(idx, Len(items))
                    THEN cooldowns + 1 ELSE cooldowns
    /\ IF idx < Len(items)
       THEN /\ idx' = idx + 1
            /\ bpc' = "position"
       ELSE /\ bpc' = "manifest"
            /\ UNCHANGED idx
    /\ UNCHANGED <<env, analysis, items, generated, pushList, log, fetch,
                   key, promptCache, sheet>>

\* main, lines 435-442: push_list.txt is written when a path was collected.
WriteManifest ==
    /\ bpc = "manifest"
    /\ pushList' = IF generated # <<>> THEN File(generated) ELSE pushList
    /\ bpc' = "end"
    /\ UNCHANGED <<env, analysis, items, idx, generated, cooldowns, log,
                   fetch, key, promptCache, sheet>>

BatchNext ==
    \/ Connect
    \/ StartPosition
    \/ AnalyzeStart
    \/ DeepSeekBegin
    \/ DeepSeekAttempt
    \/ DeepSeekSleep
    \/ GeminiBegin
    \/ GeminiAttempt
    \/ GeminiSleep
    \/ OpenAICall
    \/ FinishPosition
    \/ Cooldown
    \/ WriteManifest

BatchSpec == BatchInit /\ [][BatchNext]_vars

\* main is a single thread: every step it can take it takes.
BatchLiveSpec == BatchSpec /\ WF_vars(BatchNext)

\* ------------------------------- fetch_stock_data_dynamic on its own

\* Neither main nor ai_analyze is running.
Quiet ==
    /\ pc = "off"
    /\ phase = [p \in Providers |-> "idle"]
    /\ attempt = [p \in Providers |-> 0]
    /\ https = [p \in Providers |-> 0]
    /\ sleeps = [p \in Providers |-> 0]
    /\ last = [p \in Providers |-> "none"]
    /\ nretry = [p \in Providers |-> 0]
    /\ nother = [p \in Providers |-> 0]
    /\ err = [p \in Providers |-> NoExc]
    /\ wait = NoWait
    /\ turns = [p \in Providers |-> 0]
    /\ branch = "none"
    /\ result = NoResult
    /\ bpc = "off"
    /\ items = <<>>
    /\ idx = 0
    /\ generated = <<>>
    /\ pushList = NoFile
    /\ cooldowns = 0
    /\ log = <<>>

\* A call of fetch_stock_data_dynamic for any reference date and any
\* behaviour of the data source.
FetchInit ==
    /\ env \in [prompt : {TRUE}, keys : BatchKeys, maxRetries : {0},
                baseSleep : {25}]
    /\ Quiet
    /\ \E buyDate \in BuyDates, raises \in BOOLEAN, n \in 0 .. MaxRows,
          bad \in BOOLEAN :
          fetch = FetchCall(PositionItems(1)[1], buyDate,
                            Source(raises, n, bad))
    /\ key = NoKey
    /\ promptCache = NoPrompt
    /\ sheet = NoSheet

\* fetch_stock_data_dynamic runs and returns (lines 188-212).
FetchReturn ==
    /\ fetch.phase = "called"
    /\ fetch' = Fetched(fetch.symbol, fetch.buyDate, fetch.src,
                        FetchStockData(fetch.symbol, fetch.buyDate, Today,
                                       fetch.src))
    /\ UNCHANGED <<env, analysis, bpc, items, idx, generated, pushList,
                   cooldowns, log, key, promptCache, sheet>>

FetchNext == FetchReturn

FetchSpec == FetchInit /\ [][FetchNext]_vars

\* ------------------------------------- one identifier and its uses

\* An identifier arrives: the Code cell of a row of the sheet, or the
\* text of a Telegram message.
KeyInit ==
    /\ env \in [prompt : {TRUE}, keys : BatchKeys, maxRetries : {0},
                baseSleep : {25}]
    /\ Quiet
    /\ fetch = NoFetch
    /\ \E raw \in IdStrings : key = KeyUse("input", raw, <<>>)
    /\ promptCache = NoPrompt
    /\ sheet = NoSheet

\* main.py: get_all_stocks reads the row whose Code cell is raw;
\* _parse_records skips it or files it under its code.
ListPosition ==
    /\ key.op = "input"
    /\ key' = IF ParseRecordCode(key.raw).ok
              THEN KeyUse("listed", key.raw, <<ParseRecordCode(key.raw).code>>)
              ELSE KeyUse("unlisted", key.raw, <<>>)
    /\ UNCHANGED <<env, analysis, bpc, items, idx, generated, pushList,
                   cooldowns, log, fetch, promptCache, sheet>>

\* main.py: the listed code is handed to process_one_stock, which
\* normalises it (lines 390-391) and hands it to
\* fetch_stock_data_dynamic, which normalises it again (lines 189-190)
\* and asks the data source for it.
ProcessListed ==
    /\ key.op = "listed"
    /\ \E buyDate \in BuyDates, src \in BatchSources :
          LET clean_symbol == Normalize(key.used[1])
              r == FetchStockData(clean_symbol, buyDate, Today, src)
          IN  key' = KeyUse("fetched", key.raw,
                            <<key.used[1], clean_symbol, r.symbolCode>>)
    /\ UNCHANGED <<env, analysis, bpc, items, idx, generated, pushList,
                   cooldowns, log, fetch, promptCache, sheet>>

\* add_stock.py, lines 95-108, for a message without a removal keyword:
\* parse_command finds a code or the message is ignored;
\* add_or_update_stock normalises the code and looks it up (sheet.find),
\* then updates the row found or appends one.
AddCommand ==
    /\ key.op = "input"
    /\ IF ~ParseCommandCode(key.raw).ok
       THEN key' = KeyUse("ignored", key.raw, <<>>)
       ELSE \E found \in BOOLEAN :
               key' = KeyUse(IF found THEN "updated" ELSE "added", key.raw,
                             <<Normalize(ParseCommandCode(key.raw).code)>>)
    /\ UNCHANGED <<env, analysis, bpc, items, idx, generated, pushList,
                   cooldowns, log, fetch, promptCache, sheet>>

\* add_stock.py, lines 95-103, for a message with a removal keyword:
\* remove_stock normalises the code, looks it up and deletes the row
\* found.
RemoveCommand ==
    /\ key.op = "input"
    /\ IF ~ParseCommandCode(key.raw).ok
       THEN key' = KeyUse("ignored", key.raw, <<>>)
       ELSE \E found \in BOOLEAN :
               key' = KeyUse(IF found THEN "removed" ELSE "notfound", key.raw,
                             <<Normalize(ParseCommandCode(key.raw).code)>>)
    /\ UNCHANGED <<env, analysis, bpc, items, idx, generated, pushList,
                   cooldowns, log, fetch, promptCache, sheet>>

KeyNext ==
    \/ ListPosition
    \/ ProcessListed
    \/ AddCommand
    \/ RemoveCommand

KeySpec == KeyInit /\ [][KeyNext]_vars

\* ---------------------------------- get_prompt_content on its own

\* A run starts: _PROMPT_CACHE is None, the environment variable and the
\* file are in any state.
PromptInit ==
    /\ env \in [prompt : {TRUE}, keys : BatchKeys, maxRetries : {0},
                baseSleep : {25}]
    /\ Quiet
    /\ fetch = NoFetch
    /\ key = NoKey
    /\ sheet = NoSheet
    /\ \E envv \in EnvTemplates, file \in Files :
          promptCache = PromptState(NoTemplate, envv, file, 0, 0, NoTemplate,
                                    NoTemplate)

\* get_prompt_content, lines 260-274, called by ai_analyze for one
\* position: the sources are read when _PROMPT_CACHE is None, and the
\* call works with _PROMPT_CACHE.
GetPromptContent ==
    /\ promptCache.calls < MaxPromptCalls
    /\ LET read == promptCache.cache = NoTemplate
           v == IF read
                THEN ReadTemplate(promptCache.envv, promptCache.file)
                ELSE promptCache.cache
       IN  promptCache' =
             PromptState(v, promptCache.envv, promptCache.file,
                         promptCache.calls + 1,
                         IF read THEN promptCache.reads + 1
                         ELSE promptCache.reads,
                         IF read /\ promptCache.reads = 0 THEN v
                         ELSE promptCache.first,
                         v)
    /\ UNCHANGED <<env, analysis, bpc, items, idx, generated, pushList,
                   cooldowns, log, fetch, key, sheet>>

\* prompt_secret.txt is written, removed or made unreadable while the run
\* goes on: the file is not the program's.
TemplateFileChanges ==
    /\ \E file \in Files \ {promptCache.file} :
          promptCache' = [promptCache EXCEPT !.file = file]
    /\ UNCHANGED <<env, analysis, bpc, items, idx, generated, pushList,
                   cooldowns, log, fetch, key, sheet>>

PromptNext ==
    \/ GetPromptContent
    \/ TemplateFileChanges

PromptSpec == PromptInit /\ [][PromptNext]_vars

\* ------------------------------------------ SheetManager on its own

\* The sheet has its header row and no position.
StoreInit ==
    /\ env \in [prompt : {TRUE}, keys : BatchKeys, maxRetries : {0},
                baseSleep : {25}]
    /\ Quiet
    /\ fetch = NoFetch
    /\ key = NoKey
    /\ promptCache = NoPrompt
    /\ sheet = SheetState(<<>>, "idle", <<>>, "None", <<>>)

\* add_or_update_stock (lines 101-117): the row sheet.find gives is
\* updated, or a row is appended when it raises CellNotFound.
AddOrUpdateStock ==
    /\ \E code \in StoreCodes, qty \in StoreQtys :
          LET c == Normalize(code)
              r == FindRow(sheet.rows, c)
              cells == <<DateCell(<<>>), QtyCell(qty), PriceCell(<<>>)>>
          IN  IF r > 0
              THEN sheet' = SheetState(
                              [sheet.rows EXCEPT
                                 ![r] = <<@[1]>> \o cells],
                              "add", c, "Updated", sheet.rows)
              ELSE /\ Len(sheet.rows) < MaxSheetRows
                   /\ sheet' = SheetState(Append(sheet.rows, <<c>> \o cells),
                                          "add", c, "Added", sheet.rows)
    /\ UNCHANGED <<env, analysis, bpc, items, idx, generated, pushList,
                   cooldowns, log, fetch, key, promptCache>>

\* remove_stock (lines 119-127): the row sheet.find gives is deleted.
RemoveStock ==
    /\ \E code \in StoreCodes :
          LET c == Normalize(code)
              r == FindRow(sheet.rows, c)
          IN  sheet' = IF r > 0
                       THEN SheetState(DeleteRow(sheet.rows, r), "remove", c,
                                       "True", sheet.rows)
                       ELSE SheetState(sheet.rows, "remove", c, "False",
                                       sheet.rows)
    /\ UNCHANGED <<env, analysis, bpc, items, idx, generated, pushList,
                   cooldowns, log, fetch, key, promptCache>>

StoreNext ==
    \/ AddOrUpdateStock
    \/ RemoveStock

StoreSpec == StoreInit /\ [][StoreNext]_vars

\* ================================================================ claims

\* Priority of a provider in ai_analyze.
Rank(p) ==
    CASE p = "deepseek" -> 1
      [] p = "gemini" -> 2
      [] OTHER -> 3

\* max_retries of the provider's loop.
MaxAttempts(p) == IF p = "gemini" THEN env.maxRetries ELSE DeepSeekMaxRetries

Looping == {"deepseek", "gemini"}

\* C1: providers are tried in the order DeepSeek, Gemini, OpenAI, each at
\* most once per analysis; a provider is called only after every provider
\* before it has ended in failure; the first provider that succeeds gives
\* the value ai_analyze returns at once, and no provider after it is called.
C1_FallbackOrder ==
    /\ \A p \in Providers : turns[p] <= 1
    /\ \A p \in Providers : (phase[p] # "idle" \/ https[p] > 0) => turns[p] = 1
    /\ \A p, q \in Providers :
          (turns[q] = 1 /\ Rank(p) < Rank(q)) =>
              (turns[p] = 1 /\ phase[p] = "exhausted")
    /\ pc \in Providers =>
          \A p \in Providers : Rank(p) < Rank(pc) => phase[p] = "exhausted"
    /\ \A p \in Providers :
          phase[p] = "succeeded" =>
              /\ pc = "done"
              /\ result.kind = "text"
              /\ result.src = p
              /\ \A q \in Providers :
                    Rank(q) > Rank(p) =>
                        (turns[q] = 0 /\ https[q] = 0 /\ phase[q] = "idle")

\* DeepSeek failed after its three attempts, Gemini answered, OpenAI was
\* never called.
C1_Witness ==
    /\ pc = "done"
    /\ phase["deepseek"] = "exhausted"
    /\ https["deepseek"] = 3
    /\ phase["gemini"] = "succeeded"
    /\ result.src = "gemini"
    /\ turns["openai"] = 0

\* C2, the safety part: no exception of a provider leaves ai_analyze, a
\* provider that failed has handed over to the next one, and what is
\* returned once the providers were consulted is a provider's text or the
\* composite failure text.
C2_Safe ==
    /\ result.kind # "raised"
    /\ \A p \in Looping :
          phase[p] = "exhausted" =>
              (pc = NextProvider(p) \/ turns[NextProvider(p)] = 1)
    /\ phase["openai"] = "exhausted" => result.kind = "composite"
    /\ (pc = "done" /\ env.prompt) => result.kind \in {"text", "composite"}
    /\ (pc = "done" /\ result.kind = "composite") =>
          \A p \in Providers : phase[p] = "exhausted"

\* C2: every failure class ends only the provider's turn, the next provider
\* is tried, no exception reaches the caller, and ai_analyze terminates with
\* a text or the composite failure text.
C2_FailuresAdvance == [](C2_Safe) /\ <>(pc = "done")

\* All three failed, each in a different way, and the composite text was
\* returned.
C2_Witness ==
    /\ pc = "done"
    /\ result.kind = "composite"
    /\ last["deepseek"] = "malformed"
    /\ last["gemini"] = "fatal"
    /\ last["openai"] = "missingkey"

\* C3: a 429 of Gemini classified quota-exhausted on attempt k is the last
\* exchange with Gemini: no sleep follows it (k attempts, k-1 sleeps, 1 and 0
\* on the first attempt), GeminiQuotaExceeded leaves the call, and the
\* quota clause of ai_analyze calls OpenAI.
C3_QuotaStopsRetry ==
    last["gemini"] = "quota" =>
        /\ phase["gemini"] = "exhausted"
        /\ err["gemini"].cls = "GeminiQuotaExceeded"
        /\ branch = "quota"
        /\ https["gemini"] = attempt["gemini"]
        /\ sleeps["gemini"] = attempt["gemini"] - 1
        /\ wait = NoWait
        /\ pc \in {"openai", "done"}
        /\ pc = "done" => turns["openai"] = 1

\* Quota exhaustion on the first attempt: one request, no sleep, OpenAI next.
C3_Witness ==
    /\ last["gemini"] = "quota"
    /\ https["gemini"] = 1
    /\ sleeps["gemini"] = 0
    /\ pc = "openai"

\* C4: in the Gemini loop a sleep lies between a failed attempt and the next
\* one, and k failures that are all 429 (not quota) or 503, followed by a
\* success, make k+1 requests and k sleeps and return the text.
C4_RetryThenSuccess ==
    /\ phase["gemini"] = "attempting" =>
          (https["gemini"] = attempt["gemini"] - 1
           /\ sleeps["gemini"] = attempt["gemini"] - 1)
    /\ phase["gemini"] = "retrying" =>
          (https["gemini"] = attempt["gemini"]
           /\ sleeps["gemini"] = attempt["gemini"] - 1
           /\ attempt["gemini"] < env.maxRetries)
    /\ (phase["gemini"] = "succeeded" /\ nother["gemini"] = 0) =>
          /\ https["gemini"] = nretry["gemini"] + 1
          /\ sleeps["gemini"] = nretry["gemini"]
          /\ attempt["gemini"] = nretry["gemini"] + 1
          /\ result.kind = "text"
          /\ result.src = "gemini"
          /\ Truthy(result.text)

\* Two retryable failures, then success on the third attempt, two sleeps.
C4_Witness ==
    /\ phase["gemini"] = "succeeded"
    /\ nretry["gemini"] = 2
    /\ nother["gemini"] = 0
    /\ https["gemini"] = 3
    /\ sleeps["gemini"] = 2
    /\ env.maxRetries >= 3

\* C5: a fatal HTTP status ends the call to the provider (no sleep, no
\* further request), in the Gemini and in the DeepSeek loop.
C5_FatalNotRetried ==
    \A p \in Looping : last[p] = "fatal" => phase[p] = "exhausted"

\* C6: in both loops a malformed response ends the call only on the last
\* attempt; before that it is slept on and retried.
C6_MalformedRetried ==
    \A p \in Looping :
        (last[p] = "malformed" /\ phase[p] = "exhausted") =>
            attempt[p] = MaxAttempts(p)

\* C7: the text ai_analyze returns as a provider's answer is never None and
\* never empty.
C7_NoEmptySuccess == result.kind = "text" => Truthy(result.text)

\* C8, the state part: while a loop runs 1 <= attempt <= max_retries; the
\* sleeps taken are one fewer than the attempts started, so at most
\* max_retries - 1; a retryable failure on the last attempt ends the call.
C8_Inv ==
    \A p \in Looping :
        /\ phase[p] \in {"attempting", "retrying"} =>
              (1 <= attempt[p] /\ attempt[p] <= MaxAttempts(p))
        /\ attempt[p] <= Max(MaxAttempts(p), 0)
        /\ attempt[p] >= 1 => sleeps[p] = attempt[p] - 1
        /\ sleeps[p] <= Max(MaxAttempts(p) - 1, 0)
        /\ ( /\ last[p] \in {"transient429", "overloaded", "exception"}
             /\ attempt[p] = MaxAttempts(p)
             /\ https[p] = attempt[p] ) => phase[p] = "exhausted"

\* C8, the step part: the loop is entered with attempt = 1, attempt grows by
\* exactly 1 and only together with one sleep, and nothing happens to a
\* call that has succeeded or is exhausted.
C8_Step ==
    \A p \in Looping :
        /\ (phase[p] = "idle" /\ phase'[p] = "attempting") => attempt'[p] = 1
        /\ attempt'[p] # attempt[p] => attempt'[p] = attempt[p] + 1
        /\ (attempt[p] >= 1 /\ attempt'[p] # attempt[p]) =>
              (phase[p] = "retrying" /\ sleeps'[p] = sleeps[p] + 1)
        /\ phase[p] \in {"succeeded", "exhausted"} =>
              /\ phase'[p] = phase[p]
              /\ attempt'[p] = attempt[p]
              /\ https'[p] = https[p]
              /\ sleeps'[p] = sleeps[p]

\* C8: the retry state machine of each loop: attempt starts at 1, grows by
\* 1 per retry and stays within 1..max_retries, at most max_retries - 1
\* sleeps, a retryable failure on the last attempt exhausts the call, and
\* Succeeded and Exhausted are terminal.
C8_RetryMachine == [](C8_Inv) /\ [][C8_Step]_vars

\* Gemini answered 503 on the last of three attempts: exhausted after two
\* sleeps.
C8_Witness ==
    /\ env.maxRetries = 3
    /\ phase["gemini"] = "exhausted"
    /\ last["gemini"] = "overloaded"
    /\ attempt["gemini"] = 3
    /\ https["gemini"] = 3
    /\ sleeps["gemini"] = 2

\* C9 as stated: on a 429 that is not quota exhaustion the delay slept is
\* the larger of the server's hint and the backoff with jitter, so never
\* below the backoff.
C9_DelayIsMax ==
    (phase["gemini"] = "retrying" /\ last["gemini"] = "transient429") =>
        /\ wait.secs =
              Max(wait.hint,
                  GeminiBackoff(env.baseSleep, attempt["gemini"], wait.jitter))
        /\ wait.secs >= GeminiBackoff(env.baseSleep, attempt["gemini"], 0)

\* C9 amended: on a 429 that is not quota exhaustion the delay slept is the
\* server's hint when one is present (raised to at least 1 s), whatever the
\* backoff; only without a hint is it the backoff
\* int(base * 2^(attempt-1) + jitter), which is then at least the backoff
\* rounded down to whole seconds.
C9_HintElseBackoff ==
    (phase["gemini"] = "retrying" /\ last["gemini"] = "transient429") =>
        /\ wait.pending
        /\ wait.hint > 0 => wait.secs = wait.hint
        /\ wait.hint = 0 =>
              /\ 10 * wait.secs <=
                    env.baseSleep * Pow2(attempt["gemini"] - 1) + wait.jitter
              /\ 10 * wait.secs + 10 >
                    env.baseSleep * Pow2(attempt["gemini"] - 1) + wait.jitter
              /\ wait.secs >=
                    GeminiBackoff(env.baseSleep, attempt["gemini"], 0)

\* A 429 with Retry-After: 1 on an attempt whose backoff is 2.5 s or more:
\* the loop is about to sleep 1 s.
C9_Witness ==
    /\ phase["gemini"] = "retrying"
    /\ last["gemini"] = "transient429"
    /\ env.baseSleep = 25
    /\ wait.hint = 1
    /\ wait.secs = 1

\* C10: every retry sleep lasts at least 1 second, whatever the attempt and
\* the configured base sleep, and a server hint that is present and
\* positive is the delay used.
C10_SleepAtLeastOneSecond ==
    \A p \in Looping :
        phase[p] = "retrying" =>
            /\ wait.secs >= 1
            /\ wait.hint > 0 => wait.secs = wait.hint

\* C11: when every provider fails, the text ai_analyze returns names each
\* provider once, in the order DeepSeek, Gemini, OpenAI, each with the
\* message of the exception that ended its turn, and the wording of
\* Gemini's entry tells how Gemini's turn ended: quota exhausted, rate
\* limited on the last attempt, or anything else.
C11_GeminiEnding ==
    CASE last["gemini"] = "quota" -> "Gemini Quota Error"
      [] last["gemini"] = "transient429" -> "Gemini RateLimit Error"
      [] OTHER -> "Gemini Error"

C11_CompositeText ==
    /\ result.kind = "composite" =>
         /\ \A p \in Providers : phase[p] = "exhausted"
         /\ Len(result.parts) = 3
         /\ result.parts[1] = <<"DeepSeek Error", err["deepseek"].msg>>
         /\ result.parts[2] = <<C11_GeminiEnding, err["gemini"].msg>>
         /\ result.parts[3] = <<"OpenAI Error", err["openai"].msg>>
         /\ result.parts[2][1] = "Gemini Quota Error"
              <=> err["gemini"].cls = "GeminiQuotaExceeded"
         /\ result.parts[2][1] = "Gemini RateLimit Error"
              <=> err["gemini"].cls = "GeminiRateLimited"
    /\ (pc = "done" /\ \A p \in Providers : phase[p] = "exhausted")
         => result.kind \in {"composite", "raised"}

\* Every provider failed and Gemini's turn ended rate limited on its last
\* attempt.
C11_Witness ==
    /\ result.kind = "composite"
    /\ last["gemini"] = "transient429"
    /\ result.parts[2][1] = "Gemini RateLimit Error"

\* C12, the state part: process_one_stock is started at most once for a
\* position; the positions before the current one have all ended, those
\* after it have not been started; ai_analyze runs only for the current
\* position; one cooldown was taken between two positions; and when main
\* is past its loop every position was started once and has ended,
\* however the others ended.
C12_Inv ==
    /\ Len(log) = Len(items)
    /\ idx <= Len(items)
    /\ \A i \in 1 .. Len(log) :
          /\ log[i].started <= 1
          /\ log[i].outcome # "pending" => log[i].started = 1
          /\ i < idx => (log[i].started = 1 /\ log[i].outcome # "pending")
          /\ i > idx => (log[i].started = 0 /\ log[i].outcome = "pending")
    /\ pc # "off" =>
          /\ bpc = "analyze"
          /\ log[idx].started = 1
          /\ log[idx].outcome = "pending"
    /\ idx >= 1 => cooldowns = idx - 1
    /\ bpc \in {"manifest", "end"} =>
          \A i \in 1 .. Len(log) :
              log[i].started = 1 /\ log[i].outcome # "pending"

\* C12, the step part: a position is started only when it is the current
\* one and main is between two calls, and the current position moves on
\* by one, after the call for it has ended.
C12_Step ==
    /\ \A i \in 1 .. Len(log) :
          (Len(log') = Len(log) /\ log'[i].started # log[i].started) =>
              /\ i = idx
              /\ bpc = "position"
              /\ pc = "off"
    /\ (idx >= 1 /\ idx' # idx) =>
          /\ idx' = idx + 1
          /\ log[idx].outcome # "pending"

\* C12: positions are processed one at a time in the order of the list,
\* each started exactly once, the next only after the one before has
\* finished or failed; no failure of a position keeps the later ones from
\* being processed, and main always ends.
C12_Isolated == [](C12_Inv) /\ [][C12_Step]_vars /\ <>(bpc = "end")

\* The first position raised and the second was processed all the same.
C12_Witness ==
    /\ bpc = "end"
    /\ Len(log) = 2
    /\ log[1].outcome = "raised"
    /\ log[2].started = 1
    /\ log[2].outcome = "report"

\* The paths process_one_stock returned, in the order of the positions.
C13_Returned ==
    LET made == SelectSeq([i \in 1 .. Len(log) |-> i],
                          LAMBDA i : log[i].outcome = "report")
    IN  [k \in 1 .. Len(made) |-> PdfPath(items[made[k]], "5m")]

C14_FailedNotProduced ==
    (bpc = "cooldown" /\ result.kind = "composite") =>
        /\ log[idx].outcome # "report"
        /\ \A k \in 1 .. Len(generated) :
              generated[k] # PdfPath(items[idx], "5m")

\* The fetch of the current position found the data source raising or
\* without rows.
C15_NoData(f) ==
    /\ f.phase = "returned"
    /\ f.src.raises \/ f.src.n = 0

\* C15, the state part: a skipped position has no entry among the
\* collected paths nor in the manifest, and while the data of the current
\* position is unavailable ai_analyze is not running.
C15_Inv ==
    /\ \A i \in 1 .. Len(log) :
          log[i].outcome = "skipped" =>
              /\ \A k \in 1 .. Len(generated) :
                    generated[k] # PdfPath(items[i], "5m")
              /\ \A k \in 1 .. Len(pushList.lines) :
                    pushList.lines[k] # PdfPath(items[i], "5m")
    /\ (C15_NoData(fetch) /\ bpc \in {"analyze", "cooldown"}) =>
          /\ pc = "off"
          /\ log[idx].outcome = "skipped"

\* C15, the step part: the call of process_one_stock whose fetch finds no
\* data ends with the position skipped: no request is sent to a provider,
\* nothing is collected, and main goes on to the cooldown and the next
\* position.
C15_Step ==
    (bpc = "position" /\ bpc' # bpc /\ C15_NoData(fetch')) =>
        /\ log'[idx].outcome = "skipped"
        /\ log'[idx].started = 1
        /\ UNCHANGED <<pc, calls, generated, pushList>>
        /\ pc = "off"
        /\ result' = NoResult
        /\ bpc' = "cooldown"

\* C15: when the fetch of a position raises or gives an empty series, the
\* position is skipped: no provider is invoked, no chart or report is
\* made, nothing is added to the manifest, and the run goes on with the
\* next position.
C15_DataUnavailable == [](C15_Inv) /\ [][C15_Step]_vars

\* The first position gave a report; the data source raised for the
\* second, which was skipped: the first report is the whole manifest.
C15_Witness ==
    /\ bpc = "end"
    /\ Len(log) = 2
    /\ log[1].outcome = "report"
    /\ fetch.src.raises
    /\ log[2].outcome = "skipped"
    /\ pushList = File(<<PdfPath(items[1], "5m")>>)

\* C16 as stated: the window asked of the data source starts 15 days
\* before the position's reference date when there is a valid one, and 15
\* days before now otherwise; it ends at now, so start <= now.
C16_WindowFromReference ==
    fetch.phase = "returned" =>
        /\ fetch.out.start =
              (IF fetch.buyDate.kind = "day"
               THEN fetch.buyDate.day - 15
               ELSE Today - 15)
        /\ fetch.out.start <= Today

\* C17 as stated: a fine-resolution answer of more than the ceiling of
\* rows is followed by one request at the coarse resolution, and the
\* period reported with the series tells which resolution was kept.
C17_EscalatesOnce ==
    (fetch.phase = "returned" /\ ~fetch.src.raises /\ ~fetch.src.bad) =>
        IF fetch.src.n <= RowCeiling
        THEN fetch.out.requests = 1 /\ fetch.out.period = "5m"
        ELSE fetch.out.requests = 2 /\ fetch.out.period # "5m"

\* The rows the data source handed over: none when it raised.
C18_Fetched ==
    IF fetch.src.raises THEN 0 ELSE fetch.src.n

\* C18: the series returned never has more than 500 rows: of n fetched
\* rows it is the most recent min(n, 500), in their ascending order, and
\* all of them when n <= 500.
C18_MostRecentRows ==
    (fetch.phase = "returned" /\ ~fetch.out.raised) =>
        LET n == C18_Fetched
            m == IF n <= RowCeiling THEN n ELSE RowCeiling
        IN  /\ Len(fetch.out.df) <= RowCeiling
            /\ Len(fetch.out.df) = m
            /\ \A k \in 1 .. m : fetch.out.df[k] = SourceRows(n)[n - m + k]
            /\ n <= RowCeiling => fetch.out.df = SourceRows(n)

\* Two rows more than the ceiling were fetched: the two oldest are gone.
C18_Witness ==
    /\ fetch.phase = "returned"
    /\ fetch.src = Source(FALSE, RowCeiling + 2, FALSE)
    /\ Len(fetch.out.df) = RowCeiling
    /\ fetch.out.df[1] = 3
    /\ fetch.out.df[RowCeiling] = RowCeiling + 2

\* C19 as stated: every key handed to the sheet or to the data source is
\* exactly 6 digits, whatever string the identifier came from, shorter or
\* longer than 6 digits; normalising is idempotent, and "2641" and
\* "002641" both give "002641".
C19_AlwaysSixDigits ==
    /\ \A k \in 1 .. Len(key.used) :
          /\ Len(key.used[k]) = 6
          /\ \A j \in 1 .. Len(key.used[k]) : IsDigit(key.used[k][j])
          /\ Normalize(key.used[k]) = key.used[k]
    /\ Normalize(Normalize(key.raw)) = Normalize(key.raw)
    /\ Normalize(<<"2", "6", "4", "1">>) = <<"0", "0", "2", "6", "4", "1">>
    /\ Normalize(<<"0", "0", "2", "6", "4", "1">>)
          = <<"0", "0", "2", "6", "4", "1">>

\* C20: an identifier without a digit is never looked up, stored, removed,
\* fetched or analysed under the key "000000": the row of the sheet is
\* left out of the list, the message is ignored.
C20_NoFalseZero ==
    FilterDigits(key.raw) = <<>> =>
        /\ key.used = <<>>
        /\ key.op \in {"input", "unlisted", "ignored"}

\* A Code cell without a digit, which normalises to "000000", was left
\* out of the list.
C20_Witness ==
    /\ key.op = "unlisted"
    /\ key.raw = <<"a">>
    /\ Normalize(key.raw) = ZeroCode
    /\ key.used = <<>>

\* C21, the state part: the cooldowns taken are one fewer than the
\* positions reached, so n - 1 for n positions once main is past its loop
\* and none for an empty list.
C21_Inv ==
    /\ cooldowns = (IF idx >= 1 THEN idx - 1 ELSE 0)
    /\ bpc \in {"manifest", "end"} =>
          cooldowns = (IF Len(items) >= 1 THEN Len(items) - 1 ELSE 0)

\* C21, the step part: a cooldown is one sleep, taken only when the call
\* for the current position has ended, however it ended, and another
\* position is left, which is started only after it; nothing else takes
\* main from one position to the next.
C21_Step ==
    /\ cooldowns' # cooldowns =>
          /\ cooldowns' = cooldowns + 1
          /\ bpc = "cooldown"
          /\ pc = "off"
          /\ log[idx].outcome # "pending"
          /\ idx < Len(items)
          /\ idx' = idx + 1
          /\ log'[idx'].started = 0
          /\ bpc' = "position"
    /\ (idx >= 1 /\ idx' # idx) => cooldowns' = cooldowns + 1
    /\ (bpc = "cooldown" /\ idx = Len(items)) =>
          (cooldowns' = cooldowns /\ bpc' \in {"cooldown", "manifest"})

\* C21: one cooldown sleep lies between every two consecutive positions
\* and there is none elsewhere: n - 1 for n positions, each after position
\* i has ended and before position i + 1 starts, none after the last.
C21_CooldownBetween == [](C21_Inv) /\ [][C21_Step]_vars

\* Two positions, the first skipped, the second with a report: one
\* cooldown.
C21_Witness ==
    /\ bpc = "end"
    /\ Len(items) = 2
    /\ log[1].outcome = "skipped"
    /\ log[2].outcome = "report"
    /\ cooldowns = 1

\* C22 as stated: the template's sources are read exactly once in a run,
\* by the first analysis, and every analysis works with what that read
\* obtained, also when it obtained no template.
C22_ReadOnce ==
    promptCache.calls >= 1 =>
        /\ promptCache.reads = 1
        /\ promptCache.got = promptCache.first

\* The message of the ValueError p's call raises without its key.
C23_Diagnostic(p) ==
    CASE p = "deepseek" -> "DEEPSEEK_API_KEY missing"
      [] p = "gemini" -> "GEMINI_API_KEY missing"
      [] OTHER -> "OpenAI Key missing"

\* C23: the call of a provider whose API key is not set fails before its
\* retry loop: no HTTP request and no sleep is made for it, the next
\* provider is called, and when every provider fails the composite text
\* carries that provider's missing-key message.
C23_MissingKey ==
    \A p \in Providers :
        (~env.keys[p] /\ turns[p] >= 1) =>
            /\ https[p] = 0
            /\ sleeps[p] = 0
            /\ attempt[p] = 0
            /\ nretry[p] = 0
            /\ phase[p] = "exhausted"
            /\ err[p] = Exc("ValueError", C23_Diagnostic(p))
            /\ pc # p
            /\ p # "openai" =>
                  (pc = NextProvider(p) \/ turns[NextProvider(p)] = 1)
            /\ p = "openai" => result.kind = "composite"
            /\ result.kind = "composite" =>
                  result.parts[Rank(p)][2] = C23_Diagnostic(p)

\* Only Gemini's key is missing; DeepSeek and OpenAI failed after
\* requests: Gemini's entry of the composite text is the missing key.
C23_Witness ==
    /\ env.keys = [p \in Providers |-> p # "gemini"]
    /\ result.kind = "composite"
    /\ https["deepseek"] >= 1
    /\ https["gemini"] = 0
    /\ https["openai"] = 1
    /\ result.parts[2] = <<"Gemini Error", "GEMINI_API_KEY missing">>

\* C24 as stated: the sheet is a keyed upsert over normalised codes,
\* whatever calls came before: add_or_update_stock returns "Updated" and
\* keeps the number of rows when the code is listed, and otherwise appends
\* one row and returns "Added"; remove_stock returns True and removes the
\* position when the code is listed, and otherwise returns False and
\* leaves the sheet alone; the list has one position per code.
C24_KeyedUpsert ==
    /\ sheet.op = "add" =>
          IF sheet.code \in ListStocks(sheet.before)
          THEN /\ sheet.ret = "Updated"
               /\ Len(sheet.rows) = Len(sheet.before)
          ELSE /\ sheet.ret = "Added"
               /\ Len(sheet.rows) = Len(sheet.before) + 1
    /\ sheet.op = "add" => sheet.code \in ListStocks(sheet.rows)
    /\ sheet.op = "remove" =>
          IF sheet.code \in ListStocks(sheet.before)
          THEN /\ sheet.ret = "True"
               /\ Len(sheet.rows) = Len(sheet.before) - 1
               /\ ListStocks(sheet.rows)
                    = ListStocks(sheet.before) \ {sheet.code}
          ELSE /\ sheet.ret = "False"
               /\ sheet.rows = sheet.before
    /\ \A i, k \in 1 .. Len(sheet.rows) :
          (Normalize(sheet.rows[i][1]) = Normalize(sheet.rows[k][1])) => i = k

====
